---- MODULE Spec2Model ----
(***************************************************************************)
(* State-machine model of the inventory-reservation and contract-lifecycle *)
(* engine of the hedging platform backend (src/main.py).                   *)
(*                                                                         *)
(* Every endpoint is an `async def` coroutine without a single `await`, so *)
(* one request runs to completion on the event loop before the next one    *)
(* starts: each handler is one atomic action.  A handler is written as an  *)
(* operator from (products_db, contracts_db, caller, request) to the new   *)
(* stores and the HTTP response; the action applies it to the state and    *)
(* records the response in `last`.                                         *)
(*                                                                         *)
(* Quantities and prices are Python floats (pydantic `float` fields).  They *)
(* are modelled as binary floating point with a Precision-bit significand  *)
(* and round-half-to-even, in units of the smallest representable step, so *)
(* that +, - and * round as they do in the program.                        *)
(*                                                                         *)
(* Ids (uuid4 strings) are positions in the stores, which keep insertion   *)
(* order.  The caller is the user get_current_user_email resolves, or      *)
(* Anonymous when the email has no session (401).  A timestamp is the      *)
(* token Now; created_at, updated_at and the request fields that are only  *)
(* copied into the record (expected_delivery_date, notes,                  *)
(* rejection_reason) are left out.                                         *)
(***************************************************************************)
EXTENDS Integers, Sequences, FiniteSets, TLC

\* ---------------------------------------------------------------- bounds
\* significand bits of the floating-point format
Precision == 9

\* longest history explored: successful state-changing requests since start-up
MaxOps == 5

\* ------------------------------------------------------ float arithmetic
RECURSIVE Pow2(_)
Pow2(n) == IF n = 0 THEN 1 ELSE 2 * Pow2(n - 1)

Abs(x) == IF x < 0 THEN 0 - x ELSE x

\* one past the largest significand
Significands == Pow2(Precision)

RECURSIVE Quantum(_, _)
\* spacing of the representable values around magnitude a
Quantum(a, q) == IF a < q * Significands THEN q ELSE Quantum(a, 2 * q)

\* nearest multiple of the spacing q to magnitude a, ties to the even multiple
Nearest(a, q) ==
    IF 2 * (a % q) > q \/ (2 * (a % q) = q /\ (a \div q) % 2 = 1)
        THEN ((a \div q) + 1) * q
        ELSE (a \div q) * q

\* nearest representable value, ties to the even significand
Round(x) ==
    IF x < 0 THEN 0 - Nearest(Abs(x), Quantum(Abs(x), 1))
    ELSE IF x < Significands THEN x
    ELSE Nearest(x, Quantum(x, 1))

FAdd(a, b) == Round(a + b)

FSub(a, b) == Round(a - b)

FMul(a, b) == Round(a * b)

\* ------------------------------------------------------------ seed data
None == "None"

Farmers == {"farmer1", "farmer2"}

Traders == {"trader1", "trader2"}

users_db == Farmers \cup Traders

UserType(u) == IF u \in Farmers THEN "farmer" ELSE "trader"

\* datetime.now().isoformat(): some non-null timestamp
Now == "now"

\* a caller whose email is not in `sessions`
Anonymous == "anonymous"

Callers == users_db \cup {Anonymous}

\* contract_counts stands for the keys active_contracts_count and
\* pending_contracts_count: << >> while the dict has neither, else their values
Product(farmer, type, qty, unit) ==
    [farmer_id |-> farmer, type |-> type,
     total_qty |-> qty, available_qty |-> qty,
     reserved_qty |-> 0, committed_qty |-> 0,
     unit |-> unit, is_active |-> TRUE,
     contract_counts |-> << >>]

seed_data ==
    << Product("farmer1", "Soybean", 1000, "kg"),
       Product("farmer1", "Mustard", 500, "kg"),
       Product("farmer2", "Groundnut", 800, "kg") >>

\* ------------------------------------------------------- request inputs
\* Requests address the first listing created through list_product and one
\* id that is never issued; the seeded listings stay in the store untouched.
FirstListed == Len(seed_data) + 1

\* no more than MaxOps listings are ever created, so this id is never issued
Unknown == FirstListed + MaxOps

ProductIds == {FirstListed, Unknown}

ListTypes == {"Sunflower"}

ListQtys == {1000}

ListUnits == {"kg"}

FarmerQtys == {301, 600}

TraderQtys == {600}

ReqUnits == {"tonne"}

Prices == {50}

CompletedBy == {"farmer"}

\* farmer_id parameter of the product query: absent, or a producer
QueryFarmers == {None, "farmer2"}

\* ---------------------------------------------------------------- state
VARIABLES products, contracts, last

vars == << products, contracts, last >>

\* an HTTPException(status_code, detail), or the success body's message
Resp(code, detail) == [code |-> code, detail |-> detail]

Result(P, C, resp) == [products |-> P, contracts |-> C, resp |-> resp]

\* the error kind a response stands for
ErrorKind(resp) ==
    CASE resp.code = 200 -> "OK"
      [] resp.code = 401 -> "Unauthenticated"
      [] resp.code = 403 -> "Forbidden"
      [] resp.code = 404 -> "NotFound"
      [] resp.code = 400 /\ resp.detail \in {"Contract is not pending",
                                             "Contract is not active"}
            -> "InvalidState"
      [] resp.code = 400 /\ resp.detail \in {"Insufficient available quantity",
                                             "Quantity exceeds available quantity"}
            -> "InsufficientAvailable"
      [] OTHER -> "BadRequest"

Has(db, id) == id \in DOMAIN db

\* ------------------------------------------------------------- handlers
list_product(P, C, user, req) ==
    IF user = Anonymous THEN Result(P, C, Resp(401, "Not authenticated"))
    ELSE IF UserType(user) # "farmer"
        THEN Result(P, C, Resp(403, "Only farmers can list products"))
    ELSE Result(Append(P, Product(user, req.type, req.qty, req.unit)), C,
                Resp(200, "Product listed successfully"))

\* how many contracts on product are in the given status
contracts_count(C, product, status) ==
    Cardinality({c \in DOMAIN C : /\ C[c].product_id = product
                                  /\ C[c].status = status})

\* the query writes the two counts into the stored product dicts it returns
get_farmer_products(P, C, user, farmer_id) ==
    IF user = Anonymous THEN Result(P, C, Resp(401, "Not authenticated"))
    ELSE LET target_farmer_id == IF farmer_id # None THEN farmer_id ELSE user
         IN Result([p \in DOMAIN P |->
                       IF P[p].farmer_id = target_farmer_id
                           THEN [P[p] EXCEPT !.contract_counts =
                                    << contracts_count(C, p, "ACTIVE"),
                                       contracts_count(C, p, "PENDING") >>]
                           ELSE P[p]],
                   C, Resp(200, "OK"))

\* a proposal must fit available_qty only: the reservations are forgotten
available_for_contract_unreserved(product) == product.available_qty

available_for_contract(product) ==
    FSub(product.available_qty, product.reserved_qty)

\* any producer may propose on any listing
create_contract_by_farmer_any_owner(P, C, user, req) ==
    IF user = Anonymous THEN Result(P, C, Resp(401, "Not authenticated"))
    ELSE IF UserType(user) # "farmer"
        THEN Result(P, C, Resp(403, "Only farmers can create farmer contracts"))
    ELSE IF ~Has(P, req.product_id)
        THEN Result(P, C, Resp(404, "Product not found"))
    ELSE LET product == P[req.product_id] IN
         IF req.qty > available_for_contract(product)
             THEN Result(P, C, Resp(400, "Insufficient available quantity"))
         ELSE LET contract ==
                     [farmer_id |-> user, trader_id |-> None,
                      product_id |-> req.product_id,
                      product_type |-> product.type,
                      price_per_unit |-> req.price_per_unit,
                      qty |-> req.qty, unit |-> req.unit,
                      total_value |-> FMul(req.price_per_unit, req.qty),
                      status |-> "PENDING", created_by |-> "farmer",
                      accepted_at |-> None, accepted_by |-> None,
                      completed_at |-> None, rejected_at |-> None,
                      cancelled_at |-> None,
                      rejected_by |-> None, completed_by |-> None]
              IN Result([P EXCEPT ![req.product_id].reserved_qty =
                                      FAdd(@, req.qty)],
                        Append(C, contract),
                        Resp(200, "Contract created successfully"))

create_contract_by_farmer(P, C, user, req) ==
    IF user = Anonymous THEN Result(P, C, Resp(401, "Not authenticated"))
    ELSE IF UserType(user) # "farmer"
        THEN Result(P, C, Resp(403, "Only farmers can create farmer contracts"))
    ELSE IF ~Has(P, req.product_id)
        THEN Result(P, C, Resp(404, "Product not found"))
    ELSE LET product == P[req.product_id] IN
         IF product.farmer_id # user
             THEN Result(P, C, Resp(403, "This product doesn't belong to you"))
         ELSE IF req.qty > available_for_contract(product)
             THEN Result(P, C, Resp(400, "Insufficient available quantity"))
         ELSE LET contract ==
                     [farmer_id |-> user, trader_id |-> None,
                      product_id |-> req.product_id,
                      product_type |-> product.type,
                      price_per_unit |-> req.price_per_unit,
                      qty |-> req.qty, unit |-> req.unit,
                      total_value |-> FMul(req.price_per_unit, req.qty),
                      status |-> "PENDING", created_by |-> "farmer",
                      accepted_at |-> None, accepted_by |-> None,
                      completed_at |-> None, rejected_at |-> None,
                      cancelled_at |-> None,
                      rejected_by |-> None, completed_by |-> None]
              IN Result([P EXCEPT ![req.product_id].reserved_qty =
                                      FAdd(@, req.qty)],
                        Append(C, contract),
                        Resp(200, "Contract created successfully"))

\* the buyer's proposal is stored without comparing the named producer with
\* the listing's owner
create_contract_by_trader_any_farmer(P, C, user, req) ==
    IF user = Anonymous THEN Result(P, C, Resp(401, "Not authenticated"))
    ELSE IF UserType(user) # "trader"
        THEN Result(P, C, Resp(403, "Only traders can create trader contracts"))
    ELSE IF ~Has(P, req.product_id)
        THEN Result(P, C, Resp(404, "Product not found"))
    ELSE LET product == P[req.product_id] IN
         IF req.qty > product.available_qty
             THEN Result(P, C, Resp(400, "Quantity exceeds available quantity"))
         ELSE LET contract ==
                     [farmer_id |-> req.farmer_id, trader_id |-> user,
                      product_id |-> req.product_id,
                      product_type |-> product.type,
                      price_per_unit |-> req.price_per_unit,
                      qty |-> req.qty, unit |-> req.unit,
                      total_value |-> FMul(req.price_per_unit, req.qty),
                      status |-> "PENDING", created_by |-> "trader",
                      accepted_at |-> None, accepted_by |-> None,
                      completed_at |-> None, rejected_at |-> None,
                      cancelled_at |-> None,
                      rejected_by |-> None, completed_by |-> None]
              IN Result(P, Append(C, contract),
                        Resp(200, "Contract created successfully"))

\* the buyer's proposal must fit the unreserved stock
create_contract_by_trader_unreserved(P, C, user, req) ==
    IF user = Anonymous THEN Result(P, C, Resp(401, "Not authenticated"))
    ELSE IF UserType(user) # "trader"
        THEN Result(P, C, Resp(403, "Only traders can create trader contracts"))
    ELSE IF ~Has(P, req.product_id)
        THEN Result(P, C, Resp(404, "Product not found"))
    ELSE LET product == P[req.product_id] IN
         IF req.farmer_id # product.farmer_id
             THEN Result(P, C, Resp(400, "Product doesn't belong to specified farmer"))
         ELSE IF req.qty > FSub(product.available_qty, product.reserved_qty)
             THEN Result(P, C, Resp(400, "Quantity exceeds available quantity"))
         ELSE LET contract ==
                     [farmer_id |-> req.farmer_id, trader_id |-> user,
                      product_id |-> req.product_id,
                      product_type |-> product.type,
                      price_per_unit |-> req.price_per_unit,
                      qty |-> req.qty, unit |-> req.unit,
                      total_value |-> FMul(req.price_per_unit, req.qty),
                      status |-> "PENDING", created_by |-> "trader",
                      accepted_at |-> None, accepted_by |-> None,
                      completed_at |-> None, rejected_at |-> None,
                      cancelled_at |-> None,
                      rejected_by |-> None, completed_by |-> None]
              IN Result(P, Append(C, contract),
                        Resp(200, "Contract created successfully"))

create_contract_by_trader(P, C, user, req) ==
    IF user = Anonymous THEN Result(P, C, Resp(401, "Not authenticated"))
    ELSE IF UserType(user) # "trader"
        THEN Result(P, C, Resp(403, "Only traders can create trader contracts"))
    ELSE IF ~Has(P, req.product_id)
        THEN Result(P, C, Resp(404, "Product not found"))
    ELSE LET product == P[req.product_id] IN
         IF req.farmer_id # product.farmer_id
             THEN Result(P, C, Resp(400, "Product doesn't belong to specified farmer"))
         ELSE IF req.qty > product.available_qty
             THEN Result(P, C, Resp(400, "Quantity exceeds available quantity"))
         ELSE LET contract ==
                     [farmer_id |-> req.farmer_id, trader_id |-> user,
                      product_id |-> req.product_id,
                      product_type |-> product.type,
                      price_per_unit |-> req.price_per_unit,
                      qty |-> req.qty, unit |-> req.unit,
                      total_value |-> FMul(req.price_per_unit, req.qty),
                      status |-> "PENDING", created_by |-> "trader",
                      accepted_at |-> None, accepted_by |-> None,
                      completed_at |-> None, rejected_at |-> None,
                      cancelled_at |-> None,
                      rejected_by |-> None, completed_by |-> None]
              IN Result(P, Append(C, contract),
                        Resp(200, "Contract created successfully"))

\* the accept does not record the buyer on the contract
trader_accept_contract_no_buyer(P, C, user, contract_id) ==
    IF user = Anonymous THEN Result(P, C, Resp(401, "Not authenticated"))
    ELSE IF UserType(user) # "trader"
        THEN Result(P, C, Resp(403, "Only traders can accept farmer contracts"))
    ELSE IF ~Has(C, contract_id)
        THEN Result(P, C, Resp(404, "Contract not found"))
    ELSE LET contract == C[contract_id] IN
         IF contract.created_by # "farmer"
             THEN Result(P, C, Resp(400, "This is not a farmer-created contract"))
         ELSE IF contract.status # "PENDING"
             THEN Result(P, C, Resp(400, "Contract is not pending"))
         ELSE Result([P EXCEPT ![contract.product_id] =
                         [@ EXCEPT !.reserved_qty = FSub(@, contract.qty),
                                   !.committed_qty = FAdd(@, contract.qty),
                                   !.available_qty = FSub(@, contract.qty)]],
                     [C EXCEPT ![contract_id] =
                         [@ EXCEPT !.status = "ACTIVE",
                                   !.accepted_at = Now,
                                   !.accepted_by = user]],
                     Resp(200, "Contract accepted successfully"))

\* the accept forgets to require a PENDING contract
trader_accept_contract_replayed(P, C, user, contract_id) ==
    IF user = Anonymous THEN Result(P, C, Resp(401, "Not authenticated"))
    ELSE IF UserType(user) # "trader"
        THEN Result(P, C, Resp(403, "Only traders can accept farmer contracts"))
    ELSE IF ~Has(C, contract_id)
        THEN Result(P, C, Resp(404, "Contract not found"))
    ELSE LET contract == C[contract_id] IN
         IF contract.created_by # "farmer"
             THEN Result(P, C, Resp(400, "This is not a farmer-created contract"))
         ELSE Result([P EXCEPT ![contract.product_id] =
                         [@ EXCEPT !.reserved_qty = FSub(@, contract.qty),
                                   !.committed_qty = FAdd(@, contract.qty),
                                   !.available_qty = FSub(@, contract.qty)]],
                     [C EXCEPT ![contract_id] =
                         [@ EXCEPT !.trader_id = user,
                                   !.status = "ACTIVE",
                                   !.accepted_at = Now,
                                   !.accepted_by = user]],
                     Resp(200, "Contract accepted successfully"))

trader_accept_contract(P, C, user, contract_id) ==
    IF user = Anonymous THEN Result(P, C, Resp(401, "Not authenticated"))
    ELSE IF UserType(user) # "trader"
        THEN Result(P, C, Resp(403, "Only traders can accept farmer contracts"))
    ELSE IF ~Has(C, contract_id)
        THEN Result(P, C, Resp(404, "Contract not found"))
    ELSE LET contract == C[contract_id] IN
         IF contract.created_by # "farmer"
             THEN Result(P, C, Resp(400, "This is not a farmer-created contract"))
         ELSE IF contract.status # "PENDING"
             THEN Result(P, C, Resp(400, "Contract is not pending"))
         ELSE Result([P EXCEPT ![contract.product_id] =
                         [@ EXCEPT !.reserved_qty = FSub(@, contract.qty),
                                   !.committed_qty = FAdd(@, contract.qty),
                                   !.available_qty = FSub(@, contract.qty)]],
                     [C EXCEPT ![contract_id] =
                         [@ EXCEPT !.trader_id = user,
                                   !.status = "ACTIVE",
                                   !.accepted_at = Now,
                                   !.accepted_by = user]],
                     Resp(200, "Contract accepted successfully"))

\* any producer may accept a buyer-initiated contract
farmer_accept_contract_any_farmer(P, C, user, contract_id) ==
    IF user = Anonymous THEN Result(P, C, Resp(401, "Not authenticated"))
    ELSE IF UserType(user) # "farmer"
        THEN Result(P, C, Resp(403, "Only farmers can accept trader contracts"))
    ELSE IF ~Has(C, contract_id)
        THEN Result(P, C, Resp(404, "Contract not found"))
    ELSE LET contract == C[contract_id]
             product == P[contract.product_id]
         IN
         IF contract.created_by # "trader"
             THEN Result(P, C, Resp(400, "This is not a trader-created contract"))
         ELSE IF contract.status # "PENDING"
             THEN Result(P, C, Resp(400, "Contract is not pending"))
         ELSE IF contract.qty > product.available_qty
             THEN Result(P, C, Resp(400, "Insufficient available quantity"))
         ELSE Result([P EXCEPT ![contract.product_id] =
                         [@ EXCEPT !.available_qty = FSub(@, contract.qty),
                                   !.committed_qty = FAdd(@, contract.qty)]],
                     [C EXCEPT ![contract_id] =
                         [@ EXCEPT !.status = "ACTIVE",
                                   !.accepted_at = Now,
                                   !.accepted_by = user]],
                     Resp(200, "Contract accepted successfully"))

\* the accept skips the quantity validation at acceptance time
farmer_accept_contract_unvalidated(P, C, user, contract_id) ==
    IF user = Anonymous THEN Result(P, C, Resp(401, "Not authenticated"))
    ELSE IF UserType(user) # "farmer"
        THEN Result(P, C, Resp(403, "Only farmers can accept trader contracts"))
    ELSE IF ~Has(C, contract_id)
        THEN Result(P, C, Resp(404, "Contract not found"))
    ELSE LET contract == C[contract_id]
             product == P[contract.product_id]
         IN
         IF contract.created_by # "trader"
             THEN Result(P, C, Resp(400, "This is not a trader-created contract"))
         ELSE IF contract.status # "PENDING"
             THEN Result(P, C, Resp(400, "Contract is not pending"))
         ELSE IF contract.farmer_id # user
             THEN Result(P, C, Resp(403, "This contract is not for you"))
         ELSE Result([P EXCEPT ![contract.product_id] =
                         [@ EXCEPT !.available_qty = FSub(@, contract.qty),
                                   !.committed_qty = FAdd(@, contract.qty)]],
                     [C EXCEPT ![contract_id] =
                         [@ EXCEPT !.status = "ACTIVE",
                                   !.accepted_at = Now,
                                   !.accepted_by = user]],
                     Resp(200, "Contract accepted successfully"))

farmer_accept_contract(P, C, user, contract_id) ==
    IF user = Anonymous THEN Result(P, C, Resp(401, "Not authenticated"))
    ELSE IF UserType(user) # "farmer"
        THEN Result(P, C, Resp(403, "Only farmers can accept trader contracts"))
    ELSE IF ~Has(C, contract_id)
        THEN Result(P, C, Resp(404, "Contract not found"))
    ELSE LET contract == C[contract_id]
             product == P[contract.product_id]
         IN
         IF contract.created_by # "trader"
             THEN Result(P, C, Resp(400, "This is not a trader-created contract"))
         ELSE IF contract.status # "PENDING"
             THEN Result(P, C, Resp(400, "Contract is not pending"))
         ELSE IF contract.farmer_id # user
             THEN Result(P, C, Resp(403, "This contract is not for you"))
         ELSE IF contract.qty > product.available_qty
             THEN Result(P, C, Resp(400, "Insufficient available quantity"))
         ELSE Result([P EXCEPT ![contract.product_id] =
                         [@ EXCEPT !.available_qty = FSub(@, contract.qty),
                                   !.committed_qty = FAdd(@, contract.qty)]],
                     [C EXCEPT ![contract_id] =
                         [@ EXCEPT !.status = "ACTIVE",
                                   !.accepted_at = Now,
                                   !.accepted_by = user]],
                     Resp(200, "Contract accepted successfully"))

\* the status is written before the recipient check raises
reject_contract_early_write(P, C, user, contract_id) ==
    IF user = Anonymous THEN Result(P, C, Resp(401, "Not authenticated"))
    ELSE IF ~Has(C, contract_id)
        THEN Result(P, C, Resp(404, "Contract not found"))
    ELSE LET contract == C[contract_id] IN
         IF contract.status # "PENDING"
             THEN Result(P, C, Resp(400, "Contract is not pending"))
         ELSE IF contract.created_by = "farmer" /\ UserType(user) # "trader"
             THEN Result(P, [C EXCEPT ![contract_id].status = "REJECTED"],
                         Resp(403, "Only traders can reject farmer contracts"))
         ELSE IF contract.created_by # "farmer"
                 /\ (UserType(user) # "farmer" \/ contract.farmer_id # user)
             THEN Result(P, C, Resp(403, "Only the specified farmer can reject this contract"))
         ELSE Result(IF contract.created_by = "farmer"
                         THEN [P EXCEPT ![contract.product_id].reserved_qty =
                                          FSub(@, contract.qty)]
                         ELSE P,
                     [C EXCEPT ![contract_id] =
                         [@ EXCEPT !.status = "REJECTED",
                                   !.rejected_at = Now,
                                   !.rejected_by = user]],
                     Resp(200, "Contract rejected"))

\* any producer may reject a buyer-initiated contract
reject_contract_any_farmer(P, C, user, contract_id) ==
    IF user = Anonymous THEN Result(P, C, Resp(401, "Not authenticated"))
    ELSE IF ~Has(C, contract_id)
        THEN Result(P, C, Resp(404, "Contract not found"))
    ELSE LET contract == C[contract_id] IN
         IF contract.status # "PENDING"
             THEN Result(P, C, Resp(400, "Contract is not pending"))
         ELSE IF contract.created_by = "farmer" /\ UserType(user) # "trader"
             THEN Result(P, C, Resp(403, "Only traders can reject farmer contracts"))
         ELSE IF contract.created_by # "farmer" /\ UserType(user) # "farmer"
             THEN Result(P, C, Resp(403, "Only the specified farmer can reject this contract"))
         ELSE Result(IF contract.created_by = "farmer"
                         THEN [P EXCEPT ![contract.product_id].reserved_qty =
                                          FSub(@, contract.qty)]
                         ELSE P,
                     [C EXCEPT ![contract_id] =
                         [@ EXCEPT !.status = "REJECTED",
                                   !.rejected_at = Now,
                                   !.rejected_by = user]],
                     Resp(200, "Contract rejected"))

\* the reject releases a reservation whoever initiated the contract
reject_contract_always_release(P, C, user, contract_id) ==
    IF user = Anonymous THEN Result(P, C, Resp(401, "Not authenticated"))
    ELSE IF ~Has(C, contract_id)
        THEN Result(P, C, Resp(404, "Contract not found"))
    ELSE LET contract == C[contract_id] IN
         IF contract.status # "PENDING"
             THEN Result(P, C, Resp(400, "Contract is not pending"))
         ELSE IF contract.created_by = "farmer" /\ UserType(user) # "trader"
             THEN Result(P, C, Resp(403, "Only traders can reject farmer contracts"))
         ELSE IF contract.created_by # "farmer"
                 /\ (UserType(user) # "farmer" \/ contract.farmer_id # user)
             THEN Result(P, C, Resp(403, "Only the specified farmer can reject this contract"))
         ELSE Result([P EXCEPT ![contract.product_id].reserved_qty =
                                   FSub(@, contract.qty)],
                     [C EXCEPT ![contract_id] =
                         [@ EXCEPT !.status = "REJECTED",
                                   !.rejected_at = Now,
                                   !.rejected_by = user]],
                     Resp(200, "Contract rejected"))

reject_contract(P, C, user, contract_id) ==
    IF user = Anonymous THEN Result(P, C, Resp(401, "Not authenticated"))
    ELSE IF ~Has(C, contract_id)
        THEN Result(P, C, Resp(404, "Contract not found"))
    ELSE LET contract == C[contract_id] IN
         IF contract.status # "PENDING"
             THEN Result(P, C, Resp(400, "Contract is not pending"))
         ELSE IF contract.created_by = "farmer" /\ UserType(user) # "trader"
             THEN Result(P, C, Resp(403, "Only traders can reject farmer contracts"))
         ELSE IF contract.created_by # "farmer"
                 /\ (UserType(user) # "farmer" \/ contract.farmer_id # user)
             THEN Result(P, C, Resp(403, "Only the specified farmer can reject this contract"))
         ELSE Result(IF contract.created_by = "farmer"
                         THEN [P EXCEPT ![contract.product_id].reserved_qty =
                                          FSub(@, contract.qty)]
                         ELSE P,
                     [C EXCEPT ![contract_id] =
                         [@ EXCEPT !.status = "REJECTED",
                                   !.rejected_at = Now,
                                   !.rejected_by = user]],
                     Resp(200, "Contract rejected"))

\* any producer may cancel a producer-initiated contract
cancel_contract_any_farmer(P, C, user, contract_id) ==
    IF user = Anonymous THEN Result(P, C, Resp(401, "Not authenticated"))
    ELSE IF ~Has(C, contract_id)
        THEN Result(P, C, Resp(404, "Contract not found"))
    ELSE LET contract == C[contract_id] IN
         IF contract.status # "PENDING"
             THEN Result(P, C, Resp(400, "Contract is not pending"))
         ELSE IF contract.created_by = "farmer" /\ UserType(user) # "farmer"
             THEN Result(P, C, Resp(403, "Only the contract creator can cancel it"))
         ELSE IF contract.created_by # "farmer"
                 /\ (UserType(user) # "trader" \/ contract.trader_id # user)
             THEN Result(P, C, Resp(403, "Only the contract creator can cancel it"))
         ELSE Result(IF contract.created_by = "farmer"
                         THEN [P EXCEPT ![contract.product_id].reserved_qty =
                                          FSub(@, contract.qty)]
                         ELSE P,
                     [C EXCEPT ![contract_id] =
                         [@ EXCEPT !.status = "CANCELLED",
                                   !.cancelled_at = Now]],
                     Resp(200, "Contract cancelled"))

\* the cancel forgets to require a PENDING contract
cancel_contract_any_status(P, C, user, contract_id) ==
    IF user = Anonymous THEN Result(P, C, Resp(401, "Not authenticated"))
    ELSE IF ~Has(C, contract_id)
        THEN Result(P, C, Resp(404, "Contract not found"))
    ELSE LET contract == C[contract_id] IN
         IF contract.created_by = "farmer"
                 /\ (UserType(user) # "farmer" \/ contract.farmer_id # user)
             THEN Result(P, C, Resp(403, "Only the contract creator can cancel it"))
         ELSE IF contract.created_by # "farmer"
                 /\ (UserType(user) # "trader" \/ contract.trader_id # user)
             THEN Result(P, C, Resp(403, "Only the contract creator can cancel it"))
         ELSE Result(IF contract.created_by = "farmer"
                         THEN [P EXCEPT ![contract.product_id].reserved_qty =
                                          FSub(@, contract.qty)]
                         ELSE P,
                     [C EXCEPT ![contract_id] =
                         [@ EXCEPT !.status = "CANCELLED",
                                   !.cancelled_at = Now]],
                     Resp(200, "Contract cancelled"))

cancel_contract(P, C, user, contract_id) ==
    IF user = Anonymous THEN Result(P, C, Resp(401, "Not authenticated"))
    ELSE IF ~Has(C, contract_id)
        THEN Result(P, C, Resp(404, "Contract not found"))
    ELSE LET contract == C[contract_id] IN
         IF contract.status # "PENDING"
             THEN Result(P, C, Resp(400, "Contract is not pending"))
         ELSE IF contract.created_by = "farmer"
                 /\ (UserType(user) # "farmer" \/ contract.farmer_id # user)
             THEN Result(P, C, Resp(403, "Only the contract creator can cancel it"))
         ELSE IF contract.created_by # "farmer"
                 /\ (UserType(user) # "trader" \/ contract.trader_id # user)
             THEN Result(P, C, Resp(403, "Only the contract creator can cancel it"))
         ELSE Result(IF contract.created_by = "farmer"
                         THEN [P EXCEPT ![contract.product_id].reserved_qty =
                                          FSub(@, contract.qty)]
                         ELSE P,
                     [C EXCEPT ![contract_id] =
                         [@ EXCEPT !.status = "CANCELLED",
                                   !.cancelled_at = Now]],
                     Resp(200, "Contract cancelled"))

\* the completion writes the completing side over the initiator
complete_contract_overwrites_initiator(P, C, user, req) ==
    IF user = Anonymous THEN Result(P, C, Resp(401, "Not authenticated"))
    ELSE IF ~Has(C, req.contract_id)
        THEN Result(P, C, Resp(404, "Contract not found"))
    ELSE LET contract == C[req.contract_id] IN
         IF contract.status # "ACTIVE"
             THEN Result(P, C, Resp(400, "Contract is not active"))
         ELSE IF user \notin {contract.farmer_id, contract.trader_id}
             THEN Result(P, C, Resp(403, "You are not part of this contract"))
         ELSE Result([P EXCEPT ![contract.product_id] =
                         [@ EXCEPT !.committed_qty = FSub(@, contract.qty),
                                   !.total_qty = FSub(@, contract.qty)]],
                     [C EXCEPT ![req.contract_id] =
                         [@ EXCEPT !.status = "COMPLETED",
                                   !.completed_at = Now,
                                   !.created_by = req.completed_by]],
                     Resp(200, "Contract marked as completed"))

\* anyone signed in may complete an ACTIVE contract
complete_contract_any_caller(P, C, user, req) ==
    IF user = Anonymous THEN Result(P, C, Resp(401, "Not authenticated"))
    ELSE IF ~Has(C, req.contract_id)
        THEN Result(P, C, Resp(404, "Contract not found"))
    ELSE LET contract == C[req.contract_id] IN
         IF contract.status # "ACTIVE"
             THEN Result(P, C, Resp(400, "Contract is not active"))
         ELSE Result([P EXCEPT ![contract.product_id] =
                         [@ EXCEPT !.committed_qty = FSub(@, contract.qty),
                                   !.total_qty = FSub(@, contract.qty)]],
                     [C EXCEPT ![req.contract_id] =
                         [@ EXCEPT !.status = "COMPLETED",
                                   !.completed_at = Now,
                                   !.completed_by = req.completed_by]],
                     Resp(200, "Contract marked as completed"))

\* the completion forgets to require an ACTIVE contract
complete_contract_any_status(P, C, user, req) ==
    IF user = Anonymous THEN Result(P, C, Resp(401, "Not authenticated"))
    ELSE IF ~Has(C, req.contract_id)
        THEN Result(P, C, Resp(404, "Contract not found"))
    ELSE LET contract == C[req.contract_id] IN
         IF user \notin {contract.farmer_id, contract.trader_id}
             THEN Result(P, C, Resp(403, "You are not part of this contract"))
         ELSE Result([P EXCEPT ![contract.product_id] =
                         [@ EXCEPT !.committed_qty = FSub(@, contract.qty),
                                   !.total_qty = FSub(@, contract.qty)]],
                     [C EXCEPT ![req.contract_id] =
                         [@ EXCEPT !.status = "COMPLETED",
                                   !.completed_at = Now,
                                   !.completed_by = req.completed_by]],
                     Resp(200, "Contract marked as completed"))

\* the completion leaves the delivered quantity in the listing's total
complete_contract_keeps_total(P, C, user, req) ==
    IF user = Anonymous THEN Result(P, C, Resp(401, "Not authenticated"))
    ELSE IF ~Has(C, req.contract_id)
        THEN Result(P, C, Resp(404, "Contract not found"))
    ELSE LET contract == C[req.contract_id] IN
         IF contract.status # "ACTIVE"
             THEN Result(P, C, Resp(400, "Contract is not active"))
         ELSE IF user \notin {contract.farmer_id, contract.trader_id}
             THEN Result(P, C, Resp(403, "You are not part of this contract"))
         ELSE Result([P EXCEPT ![contract.product_id].committed_qty =
                                   FSub(@, contract.qty)],
                     [C EXCEPT ![req.contract_id] =
                         [@ EXCEPT !.status = "COMPLETED",
                                   !.completed_at = Now,
                                   !.completed_by = req.completed_by]],
                     Resp(200, "Contract marked as completed"))

complete_contract(P, C, user, req) ==
    IF user = Anonymous THEN Result(P, C, Resp(401, "Not authenticated"))
    ELSE IF ~Has(C, req.contract_id)
        THEN Result(P, C, Resp(404, "Contract not found"))
    ELSE LET contract == C[req.contract_id] IN
         IF contract.status # "ACTIVE"
             THEN Result(P, C, Resp(400, "Contract is not active"))
         ELSE IF user \notin {contract.farmer_id, contract.trader_id}
             THEN Result(P, C, Resp(403, "You are not part of this contract"))
         ELSE Result([P EXCEPT ![contract.product_id] =
                         [@ EXCEPT !.committed_qty = FSub(@, contract.qty),
                                   !.total_qty = FSub(@, contract.qty)]],
                     [C EXCEPT ![req.contract_id] =
                         [@ EXCEPT !.status = "COMPLETED",
                                   !.completed_at = Now,
                                   !.completed_by = req.completed_by]],
                     Resp(200, "Contract marked as completed"))

\* -------------------------------------------------------------- actions
\* requests that have changed the stores so far: one per listing created, one
\* per contract created and one per status change a contract has been through
RECURSIVE OpsOf(_)
OpsOf(C) ==
    IF C = << >> THEN 0
    ELSE OpsOf(Tail(C)) +
         (CASE Head(C).status = "PENDING" -> 1
            [] Head(C).status = "COMPLETED" -> 3
            [] OTHER -> 2)

\* the products a query has written contract counts on
Counted == {p \in DOMAIN products : products[p].contract_counts # << >>}

Ops == (Len(products) - Len(seed_data)) + OpsOf(contracts)
           + Cardinality(Counted)

\* the contract ids in the store, and one that is not
ContractIds == 1 .. Len(contracts) + 1

Apply(r) ==
    /\ products' = r.products
    /\ contracts' = r.contracts
    /\ last' = [code |-> r.resp.code, kind |-> ErrorKind(r.resp)]

Init ==
    /\ products = seed_data
    /\ contracts = << >>
    /\ last = [code |-> 200, kind |-> "OK"]

ListProduct ==
    /\ Ops < MaxOps
    /\ \E user \in Callers, type \in ListTypes, qty \in ListQtys, unit \in ListUnits :
          Apply(list_product(products, contracts, user,
                             [type |-> type, qty |-> qty, unit |-> unit]))

GetFarmerProducts ==
    /\ Ops < MaxOps
    /\ \E user \in Callers, farmer_id \in QueryFarmers :
          Apply(get_farmer_products(products, contracts, user, farmer_id))

FarmerReqs ==
    [product_id : ProductIds, price_per_unit : Prices, qty : FarmerQtys,
     unit : ReqUnits]

CreateContractByFarmer ==
    /\ Ops < MaxOps
    /\ \E user \in Callers, req \in FarmerReqs :
          Apply(create_contract_by_farmer(products, contracts, user, req))

TraderReqs ==
    [farmer_id : Farmers, product_id : ProductIds, price_per_unit : Prices,
     qty : TraderQtys, unit : ReqUnits]

CreateContractByTrader ==
    /\ Ops < MaxOps
    /\ \E user \in Callers, req \in TraderReqs :
          Apply(create_contract_by_trader(products, contracts, user, req))

TraderAcceptContract ==
    /\ Ops < MaxOps
    /\ \E user \in Callers, contract_id \in ContractIds :
        Apply(trader_accept_contract(products, contracts, user, contract_id))

FarmerAcceptContract ==
    /\ Ops < MaxOps
    /\ \E user \in Callers, contract_id \in ContractIds :
        Apply(farmer_accept_contract(products, contracts, user, contract_id))

RejectContract ==
    /\ Ops < MaxOps
    /\ \E user \in Callers, contract_id \in ContractIds :
        Apply(reject_contract(products, contracts, user, contract_id))

CancelContract ==
    /\ Ops < MaxOps
    /\ \E user \in Callers, contract_id \in ContractIds :
        Apply(cancel_contract(products, contracts, user, contract_id))

CompleteReqs == [contract_id : ContractIds, completed_by : CompletedBy]

CompleteContract ==
    /\ Ops < MaxOps
    /\ \E user \in Callers, req \in CompleteReqs :
        Apply(complete_contract(products, contracts, user, req))

Next ==
    \/ ListProduct
    \/ GetFarmerProducts
    \/ CreateContractByFarmer
    \/ CreateContractByTrader
    \/ TraderAcceptContract
    \/ FarmerAcceptContract
    \/ RejectContract
    \/ CancelContract
    \/ CompleteContract

Spec == Init /\ [][Next]_vars

\* ======================================================================
\* Properties
\* ======================================================================
Listings == DOMAIN products

Contracts == DOMAIN contracts

Accepted == {"ACTIVE", "COMPLETED"}

Terminal == {"REJECTED", "CANCELLED", "COMPLETED"}

\* float sum, in creation order, of qty over the PENDING producer-initiated
\* contracts of listing pid among the first n contracts
RECURSIVE PendingReserved(_, _)
PendingReserved(pid, n) ==
    IF n = 0 THEN 0
    ELSE LET c == contracts[n] IN
         IF c.product_id = pid /\ c.status = "PENDING" /\ c.created_by = "farmer"
             THEN FAdd(PendingReserved(pid, n - 1), c.qty)
             ELSE PendingReserved(pid, n - 1)

\* C1: every listing has available_qty >= 0 in every reachable state.
C1_AvailableNonNegative ==
    \A p \in Listings : products[p].available_qty >= 0

\* C2: every listing has total_qty >= committed_qty in every reachable state.
C2_TotalCoversCommitted ==
    \A p \in Listings : products[p].total_qty >= products[p].committed_qty

\* C3: every listing has reserved_qty >= 0 and committed_qty >= 0 in every
\* reachable state.
C3_ReservedCommittedNonNegative ==
    \A p \in Listings :
        products[p].reserved_qty >= 0 /\ products[p].committed_qty >= 0

\* C4: for every listing, the sum of qty over its PENDING producer-initiated
\* contracts is at most its reserved_qty.
C4_PendingWithinReserved ==
    \A p \in Listings :
        PendingReserved(p, Len(contracts)) <= products[p].reserved_qty

\* C5: contracts are created PENDING and never removed, and the only status
\* changes are PENDING -> ACTIVE | REJECTED | CANCELLED and ACTIVE -> COMPLETED.
C5_StatusTransitions ==
    [][ /\ Len(contracts') >= Len(contracts)
        /\ \A c \in DOMAIN contracts' :
              IF c \in Contracts
                  THEN \/ contracts'[c].status = contracts[c].status
                       \/ /\ contracts[c].status = "PENDING"
                          /\ contracts'[c].status \in {"ACTIVE", "REJECTED", "CANCELLED"}
                       \/ /\ contracts[c].status = "ACTIVE"
                          /\ contracts'[c].status = "COMPLETED"
                  ELSE contracts'[c].status = "PENDING" ]_vars

\* C5 witness: a contract has gone PENDING -> ACTIVE -> COMPLETED and a later
\* request on a contract in the wrong status was refused.
C5_Witness ==
    /\ \E c \in Contracts : contracts[c].status = "COMPLETED"
    /\ last.kind = "InvalidState"

\* the counters of listing pid after a commit of contract c
Committed(product, c) ==
    [product EXCEPT !.available_qty = FSub(@, c.qty),
                    !.committed_qty = FAdd(@, c.qty),
                    !.reserved_qty = IF c.created_by = "farmer"
                                         THEN FSub(@, c.qty) ELSE @]

\* C6 as stated: once a contract has been accepted, every further accept of
\* it, by any user through either accept operation, fails with InvalidState.
C6_SecondAcceptInvalidState ==
    \A c \in Contracts : contracts[c].status \in Accepted =>
        \A user \in users_db :
            /\ ErrorKind(trader_accept_contract(products, contracts, user, c).resp)
                   = "InvalidState"
            /\ ErrorKind(farmer_accept_contract(products, contracts, user, c).resp)
                   = "InvalidState"

\* C6 amended: the step that accepts a contract moves the listing counters
\* once by the contract's qty (available_qty down, committed_qty up, and
\* reserved_qty down when producer-initiated); every further accept of that
\* contract fails and changes nothing: with Forbidden when the caller has not
\* the role the operation requires, with the 400 "not a farmer/trader-created
\* contract" when the operation does not match the initiator, and with
\* InvalidState otherwise.
C6_AcceptOnce ==
    [][ \A c \in Contracts :
          /\ (contracts[c].status = "PENDING" /\ contracts'[c].status = "ACTIVE")
                => products' = [products EXCEPT ![contracts[c].product_id] =
                                    Committed(@, contracts[c])]
          /\ contracts[c].status \in Accepted =>
                \A user \in users_db :
                    LET t == trader_accept_contract(products, contracts, user, c)
                        f == farmer_accept_contract(products, contracts, user, c)
                    IN /\ t.products = products /\ t.contracts = contracts
                       /\ f.products = products /\ f.contracts = contracts
                       /\ ErrorKind(t.resp) =
                             (IF UserType(user) # "trader" THEN "Forbidden"
                              ELSE IF contracts[c].created_by # "farmer"
                                  THEN "BadRequest" ELSE "InvalidState")
                       /\ ErrorKind(f.resp) =
                             (IF UserType(user) # "farmer" THEN "Forbidden"
                              ELSE IF contracts[c].created_by # "trader"
                                  THEN "BadRequest" ELSE "InvalidState") ]_vars

\* C6 witness: a contract was accepted, its listing carries the commitment,
\* and a later request on it was refused with InvalidState.
C6_Witness ==
    /\ last.kind = "InvalidState"
    /\ \E c \in Contracts :
          /\ contracts[c].status = "ACTIVE"
          /\ products[contracts[c].product_id].committed_qty = contracts[c].qty

\* C7: a request that returns an error leaves every listing and every
\* contract as it was, and creates no contract.
C7_FailureChangesNothing ==
    [][ last'.kind # "OK" => (products' = products /\ contracts' = contracts) ]_vars

\* C7 witness: a request was refused as Forbidden while a contract is PENDING
\* and its reservation is in place.
C7_Witness ==
    /\ last.kind = "Forbidden"
    /\ \E c \in Contracts :
          /\ contracts[c].status = "PENDING"
          /\ contracts[c].created_by = "farmer"
          /\ products[contracts[c].product_id].reserved_qty = contracts[c].qty

\* C8: whenever a PENDING contract's qty exceeds its listing's available_qty,
\* the accept by a party entitled to accept it (any buyer for a
\* producer-initiated contract, the named producer for a buyer-initiated one)
\* fails with InsufficientAvailable.
C8_AcceptChecksAvailable ==
    \A c \in Contracts :
        (/\ contracts[c].status = "PENDING"
         /\ products[contracts[c].product_id].available_qty < contracts[c].qty)
        => IF contracts[c].created_by = "farmer"
               THEN \A user \in Traders :
                       ErrorKind(trader_accept_contract(products, contracts,
                                                        user, c).resp)
                           = "InsufficientAvailable"
               ELSE ErrorKind(farmer_accept_contract(products, contracts,
                                                     contracts[c].farmer_id, c).resp)
                        = "InsufficientAvailable"

\* C9: a PENDING buyer-initiated contract whose qty exceeds the listing's
\* available_qty cannot be accepted by the named producer: the accept fails
\* with InsufficientAvailable and changes neither the contract nor the
\* listing; one that still fits is accepted.
C9_StaleBuyerProposalRefused ==
    \A c \in Contracts :
        (contracts[c].status = "PENDING" /\ contracts[c].created_by = "trader")
        => LET r == farmer_accept_contract(products, contracts,
                                           contracts[c].farmer_id, c)
           IN IF contracts[c].qty > products[contracts[c].product_id].available_qty
                  THEN /\ ErrorKind(r.resp) = "InsufficientAvailable"
                       /\ r.contracts = contracts
                       /\ r.products = products
                  ELSE /\ ErrorKind(r.resp) = "OK"
                       /\ r.contracts[c].status = "ACTIVE"

\* C9 witness: of two buyer-initiated proposals on one listing the first was
\* accepted, the second no longer fits and its accept was refused.
C9_Witness ==
    /\ last.kind = "InsufficientAvailable"
    /\ \E c, d \in Contracts :
          /\ contracts[c].created_by = "trader" /\ contracts[c].status = "ACTIVE"
          /\ contracts[d].created_by = "trader" /\ contracts[d].status = "PENDING"
          /\ contracts[d].product_id = contracts[c].product_id
          /\ contracts[d].qty > products[contracts[d].product_id].available_qty

\* C10: when two producer-initiated proposals on a listing each fit
\* available_qty - reserved_qty but their sum does not, then whichever runs
\* first succeeds and raises reserved_qty by its qty, and the other then
\* fails with InsufficientAvailable and changes nothing.  Sums, differences
\* and comparisons are the program's own (float) ones.
C10_ConcurrentProposals ==
    \A r1, r2 \in FarmerReqs : \A p \in Listings :
        LET free == FSub(products[p].available_qty, products[p].reserved_qty)
            owner == products[p].farmer_id
            first == create_contract_by_farmer(products, contracts, owner, r1)
            second == create_contract_by_farmer(first.products, first.contracts,
                                                owner, r2)
        IN (/\ r1.product_id = p /\ r2.product_id = p
            /\ r1.qty <= free /\ r2.qty <= free
            /\ FAdd(r1.qty, r2.qty) > free)
           => /\ ErrorKind(first.resp) = "OK"
              /\ first.products[p].reserved_qty =
                    FAdd(products[p].reserved_qty, r1.qty)
              /\ Len(first.contracts) = Len(contracts) + 1
              /\ ErrorKind(second.resp) = "InsufficientAvailable"
              /\ second.products = first.products
              /\ second.contracts = first.contracts

\* C10 witness: of two proposals of 600 against a listing of 1000 one holds
\* the reservation and the other was refused.
C10_Witness ==
    /\ last.kind = "InsufficientAvailable"
    /\ \E p \in Listings :
          /\ products[p].available_qty = 1000
          /\ products[p].reserved_qty = 600
          /\ Cardinality({c \in Contracts : contracts[c].product_id = p}) = 1

\* a producer-initiated request for qty q on listing p
FarmerReq(p, q) ==
    [product_id |-> p, price_per_unit |-> CHOOSE x \in Prices : TRUE,
     qty |-> q, unit |-> CHOOSE u \in ReqUnits : TRUE]

\* C11: proposing a producer-initiated contract and then cancelling it (by
\* the producer) or rejecting it (by a buyer) leaves the listing's
\* reserved_qty, available_qty, committed_qty and total_qty at the values
\* they had before the proposal; hence so does any number of such cycles.
C11_CycleRestoresCounters ==
    \A p \in Listings : \A q \in FarmerQtys : \A t \in Traders :
        LET owner == products[p].farmer_id
            first == create_contract_by_farmer(products, contracts, owner,
                                               FarmerReq(p, q))
            cid == Len(first.contracts)
            cancelled == cancel_contract(first.products, first.contracts,
                                         owner, cid)
            rejected == reject_contract(first.products, first.contracts, t, cid)
        IN ErrorKind(first.resp) = "OK"
           => /\ ErrorKind(cancelled.resp) = "OK"
              /\ cancelled.products = products
              /\ ErrorKind(rejected.resp) = "OK"
              /\ rejected.products = products

\* the contracts written against listing p
ContractsOn(p) == {c \in Contracts : contracts[c].product_id = p}

\* a listing nothing has been reserved on or committed from
Fresh(p) ==
    /\ products[p].available_qty = products[p].total_qty
    /\ products[p].reserved_qty = 0
    /\ products[p].committed_qty = 0
    /\ ContractsOn(p) = {}

\* a completion request for contract cid
CompleteReq(cid) ==
    [contract_id |-> cid, completed_by |-> CHOOSE x \in CompletedBy : TRUE]

\* the counters of a fresh listing through propose, accept and complete
ProposeAcceptComplete ==
    \A p \in Listings : \A q \in FarmerQtys :
        LET T == products[p].total_qty
            owner == products[p].farmer_id
            cid == Len(contracts) + 1
        IN (Fresh(p) /\ q <= T)
           => \A proposed \in {create_contract_by_farmer(products, contracts,
                                     owner, FarmerReq(p, q))} :
              /\ ErrorKind(proposed.resp) = "OK"
              /\ Len(proposed.contracts) = cid
              /\ proposed.products[p] =
                     [products[p] EXCEPT !.reserved_qty = q]
              /\ \A t \in Traders :
                 \A accepted \in {trader_accept_contract(proposed.products,
                                        proposed.contracts, t, cid)} :
                 /\ ErrorKind(accepted.resp) = "OK"
                 /\ accepted.products[p] =
                        [products[p] EXCEPT !.available_qty = FSub(T, q),
                                            !.committed_qty = q]
                 /\ \A party \in {owner, t} :
                    \A completed \in {complete_contract(accepted.products,
                                           accepted.contracts, party,
                                           CompleteReq(cid))} :
                        /\ ErrorKind(completed.resp) = "OK"
                        /\ completed.products[p] =
                               [products[p] EXCEPT
                                    !.available_qty = FSub(T, q),
                                    !.total_qty = FSub(T, q)]
                        /\ completed.contracts[cid].status = "COMPLETED"

\* C12: on a listing with total_qty = available_qty = T, reserved_qty =
\* committed_qty = 0 and no contracts, a producer-initiated contract of
\* qty q <= T goes: propose -> reserved_qty = q; accept by a buyer ->
\* reserved_qty = 0, available_qty = T - q, committed_qty = q; complete (by
\* either party) -> committed_qty = 0, total_qty = T - q, available_qty = T - q.
C12_ProposeAcceptComplete == []ProposeAcceptComplete

\* a listing of 1000 whose only contract, producer-initiated, has been
\* proposed, accepted and completed
C12_Witness ==
    \E p \in Listings : \E c \in Contracts :
        /\ ContractsOn(p) = {c}
        /\ contracts[c].created_by = "farmer"
        /\ contracts[c].status = "COMPLETED"
        /\ products[p].total_qty = FSub(1000, contracts[c].qty)
        /\ products[p].available_qty = FSub(1000, contracts[c].qty)
        /\ products[p].committed_qty = 0
        /\ products[p].reserved_qty = 0

\* the outcome of a producer-initiated proposal by any signed-in caller
ProducerProposal ==
    \A user \in users_db : \A p \in Listings : \A q \in FarmerQtys :
        \A r \in {create_contract_by_farmer(products, contracts, user,
                                            FarmerReq(p, q))} :
        LET product == products[p]
            kind == ErrorKind(r.resp)
            cid == Len(contracts) + 1
        IN IF UserType(user) # "farmer" \/ product.farmer_id # user
               THEN /\ kind = "Forbidden"
                    /\ r.products = products /\ r.contracts = contracts
           ELSE IF FSub(product.available_qty, product.reserved_qty) < q
               THEN /\ kind = "InsufficientAvailable"
                    /\ r.products = products /\ r.contracts = contracts
           ELSE /\ kind = "OK"
                /\ r.products =
                       [products EXCEPT ![p].reserved_qty =
                                            FAdd(product.reserved_qty, q)]
                /\ DOMAIN r.contracts = Contracts \cup {cid}
                /\ \A c \in Contracts : r.contracts[c] = contracts[c]
                /\ r.contracts[cid].status = "PENDING"
                /\ r.contracts[cid].created_by = "farmer"
                /\ r.contracts[cid].trader_id = None
                /\ r.contracts[cid].farmer_id = user
                /\ r.contracts[cid].product_id = p
                /\ r.contracts[cid].qty = q

\* C13: a producer-initiated proposal by an authenticated caller succeeds
\* only if the caller is a producer who owns the listing and available_qty -
\* reserved_qty >= qty; on success it appends a PENDING contract with
\* initiator producer and no buyer and increases reserved_qty by qty, leaving
\* available_qty, committed_qty and total_qty unchanged; a caller who is not
\* the owner gets Forbidden, a failed quantity check InsufficientAvailable,
\* and a refused proposal changes nothing.
C13_ProducerProposal == []ProducerProposal

\* the newest contract is a producer's proposal, still PENDING with no
\* buyer, and its listing holds the reservation for it
C13_Witness ==
    /\ last.kind = "OK"
    /\ Contracts # {}
    /\ LET c == contracts[Len(contracts)]
       IN /\ c.status = "PENDING"
          /\ c.created_by = "farmer"
          /\ c.trader_id = None
          /\ products[c.product_id].farmer_id = c.farmer_id
          /\ products[c.product_id].reserved_qty = c.qty
          /\ products[c.product_id].available_qty =
                 products[c.product_id].total_qty

\* a buyer-initiated request for qty q on listing p naming producer f
TraderReq(f, p, q) ==
    [farmer_id |-> f, product_id |-> p,
     price_per_unit |-> CHOOSE x \in Prices : TRUE,
     qty |-> q, unit |-> CHOOSE u \in ReqUnits : TRUE]

\* buyer-initiated proposals, their rejects and cancels against the counters
BuyerProposalReservesNothing ==
    /\ \A user \in users_db : \A f \in Farmers :
       \A p \in Listings : \A q \in TraderQtys :
           \A r \in {create_contract_by_trader(products, contracts, user,
                                               TraderReq(f, p, q))} :
              /\ r.products = products
              /\ (UserType(user) = "trader" /\ f = products[p].farmer_id
                      /\ q <= products[p].available_qty)
                 => /\ ErrorKind(r.resp) = "OK"
                    /\ Len(r.contracts) = Len(contracts) + 1
    /\ \A c \in Contracts :
           (contracts[c].created_by = "trader" /\ contracts[c].status = "PENDING")
           => /\ \A user \in users_db :
                    /\ reject_contract(products, contracts, user, c).products
                           = products
                    /\ cancel_contract(products, contracts, user, c).products
                           = products
              /\ \A rejected \in {reject_contract(products, contracts,
                                                  contracts[c].farmer_id, c)} :
                 \A cancelled \in {cancel_contract(products, contracts,
                                                   contracts[c].trader_id, c)} :
                    /\ ErrorKind(rejected.resp) = "OK"
                    /\ rejected.contracts[c].status = "REJECTED"
                    /\ ErrorKind(cancelled.resp) = "OK"
                    /\ cancelled.contracts[c].status = "CANCELLED"

\* C14: a successful buyer-initiated proposal changes no listing counter
\* (available_qty, reserved_qty, committed_qty, total_qty), and rejecting or
\* cancelling a buyer-initiated PENDING contract changes no listing counter
\* either; the named producer's reject and the proposing buyer's cancel do
\* succeed.
C14_BuyerProposalReservesNothing == []BuyerProposalReservesNothing

\* a listing of 1000 with its counters untouched after one buyer-initiated
\* contract on it was rejected and another was cancelled
C14_Witness ==
    \E p \in Listings : \E c, d \in ContractsOn(p) :
        /\ ContractsOn(p) = {c, d}
        /\ contracts[c].created_by = "trader"
        /\ contracts[c].status = "REJECTED"
        /\ contracts[d].created_by = "trader"
        /\ contracts[d].status = "CANCELLED"
        /\ products[p] = [products[p] EXCEPT !.total_qty = 1000,
                                             !.available_qty = 1000,
                                             !.reserved_qty = 0,
                                             !.committed_qty = 0]

\* C15 as stated: every operation applied by an authenticated caller to a
\* contract that is not in the required source status (accept, reject,
\* cancel on a non-PENDING contract; complete on a non-ACTIVE contract)
\* returns InvalidState.
C15_WrongStatusInvalidState ==
    \A c \in Contracts : \A user \in users_db :
        /\ contracts[c].status # "PENDING"
           => \A r \in {trader_accept_contract(products, contracts, user, c),
                        farmer_accept_contract(products, contracts, user, c),
                        reject_contract(products, contracts, user, c),
                        cancel_contract(products, contracts, user, c)} :
                  ErrorKind(r.resp) = "InvalidState"
        /\ contracts[c].status # "ACTIVE"
           => ErrorKind(complete_contract(products, contracts, user,
                                          CompleteReq(c)).resp) = "InvalidState"

\* C15 (amended): an operation applied by an authenticated caller to a
\* contract that is not in the required source status never succeeds and
\* changes nothing; reject and cancel on a non-PENDING contract and complete
\* on a non-ACTIVE contract return InvalidState; an accept on a non-PENDING
\* contract returns Forbidden to a caller of the wrong role, BadRequest when
\* the operation does not match the contract's initiator, and InvalidState
\* otherwise.
C15_WrongStatusRefused ==
    \A c \in Contracts : \A user \in users_db :
        LET Refused(r, kind) == /\ ErrorKind(r.resp) = kind
                                /\ r.products = products
                                /\ r.contracts = contracts
            AcceptKind(role, initiator) ==
                IF UserType(user) # role THEN "Forbidden"
                ELSE IF contracts[c].created_by # initiator THEN "BadRequest"
                ELSE "InvalidState"
        IN /\ contracts[c].status # "PENDING"
              => /\ Refused(trader_accept_contract(products, contracts, user, c),
                            AcceptKind("trader", "farmer"))
                 /\ Refused(farmer_accept_contract(products, contracts, user, c),
                            AcceptKind("farmer", "trader"))
                 /\ Refused(reject_contract(products, contracts, user, c),
                            "InvalidState")
                 /\ Refused(cancel_contract(products, contracts, user, c),
                            "InvalidState")
           /\ contracts[c].status # "ACTIVE"
              => Refused(complete_contract(products, contracts, user,
                                           CompleteReq(c)), "InvalidState")

\* a request has just been refused with InvalidState while every contract in
\* the store is rejected or cancelled
C15_Witness ==
    /\ last.kind = "InvalidState"
    /\ Contracts # {}
    /\ \A c \in Contracts : contracts[c].status \in {"REJECTED", "CANCELLED"}

\* the user who proposed contract c
Initiator(c) ==
    IF contracts[c].created_by = "farmer" THEN contracts[c].farmer_id
    ELSE contracts[c].trader_id

\* C16: reject succeeds only for the counterparty and never for the
\* initiator: a PENDING producer-initiated contract is rejected by any buyer
\* and by nobody else, a PENDING buyer-initiated contract by the producer
\* named on it and by nobody else; any other authenticated caller gets
\* Forbidden and the contract stays PENDING, nothing being written.
C16_RejectByCounterparty ==
    \A c \in Contracts : \A user \in users_db :
        \A r \in {reject_contract(products, contracts, user, c)} :
        LET counterparty ==
                IF contracts[c].created_by = "farmer"
                    THEN UserType(user) = "trader"
                    ELSE user = contracts[c].farmer_id
        IN contracts[c].status = "PENDING"
           => /\ user = Initiator(c) => ~counterparty
              /\ IF counterparty
                     THEN /\ ErrorKind(r.resp) = "OK"
                          /\ r.contracts[c].status = "REJECTED"
                          /\ r.contracts[c].rejected_by = user
                     ELSE /\ ErrorKind(r.resp) = "Forbidden"
                          /\ r.contracts = contracts
                          /\ r.products = products

\* a buyer-initiated contract rejected by its named producer next to a
\* producer-initiated contract rejected by a buyer
C16_Witness ==
    \E c, d \in Contracts :
        /\ contracts[c].created_by = "trader"
        /\ contracts[c].status = "REJECTED"
        /\ contracts[c].rejected_by = contracts[c].farmer_id
        /\ contracts[d].created_by = "farmer"
        /\ contracts[d].status = "REJECTED"
        /\ contracts[d].rejected_by \in Traders

\* C17: cancel succeeds only for the initiator: a PENDING producer-initiated
\* contract is cancelled by the producer who created it and by nobody else,
\* a PENDING buyer-initiated contract by the buyer who created it and by
\* nobody else; any other authenticated caller gets Forbidden and the
\* contract stays PENDING with the listing's reservation as it was.
C17_CancelByInitiator ==
    \A c \in Contracts : \A user \in users_db :
        \A r \in {cancel_contract(products, contracts, user, c)} :
           contracts[c].status = "PENDING"
           => IF user = Initiator(c)
                  THEN /\ ErrorKind(r.resp) = "OK"
                       /\ r.contracts[c].status = "CANCELLED"
                  ELSE /\ ErrorKind(r.resp) = "Forbidden"
                       /\ r.contracts = contracts
                       /\ r.products = products

\* a cancel has just been refused with Forbidden: the only contract is a
\* producer's PENDING proposal and its reservation is in place
C17_Witness ==
    /\ last.kind = "Forbidden"
    /\ Len(contracts) = 1
    /\ contracts[1].status = "PENDING"
    /\ contracts[1].created_by = "farmer"
    /\ contracts[1].cancelled_at = None
    /\ products[contracts[1].product_id].reserved_qty = contracts[1].qty

\* C18: a buyer-initiated PENDING contract is accepted only by the producer
\* named on it: another producer gets Forbidden, and no buyer's accept, through
\* either accept operation, succeeds; a producer-initiated PENDING contract
\* is accepted only by a buyer: no producer's accept, through either accept
\* operation, succeeds. A refused accept writes nothing.
C18_WhoMayAccept ==
    \A c \in Contracts : \A user \in users_db :
        \A byTrader \in {trader_accept_contract(products, contracts, user, c)} :
        \A byFarmer \in {farmer_accept_contract(products, contracts, user, c)} :
        LET Refused(r) == /\ ErrorKind(r.resp) # "OK"
                          /\ r.products = products
                          /\ r.contracts = contracts
            Took(r) == /\ ErrorKind(r.resp) = "OK"
                       /\ r.contracts[c].status = "ACTIVE"
                       /\ r.contracts[c].accepted_by = user
        IN contracts[c].status = "PENDING"
           => IF contracts[c].created_by = "trader"
                  THEN /\ Refused(byTrader)
                       /\ IF user = contracts[c].farmer_id
                              THEN Took(byFarmer)
                                   \/ /\ Refused(byFarmer)
                                      /\ ErrorKind(byFarmer.resp)
                                             = "InsufficientAvailable"
                              ELSE /\ Refused(byFarmer)
                                   /\ ErrorKind(byFarmer.resp) = "Forbidden"
                  ELSE /\ Refused(byFarmer)
                       /\ IF UserType(user) = "trader"
                              THEN Took(byTrader)
                              ELSE /\ Refused(byTrader)
                                   /\ ErrorKind(byTrader.resp) = "Forbidden"

\* a buyer-initiated contract accepted by its named producer next to a
\* producer-initiated contract accepted by a buyer
C18_Witness ==
    \E c, d \in Contracts :
        /\ contracts[c].created_by = "trader"
        /\ contracts[c].status = "ACTIVE"
        /\ contracts[c].accepted_by = contracts[c].farmer_id
        /\ contracts[d].created_by = "farmer"
        /\ contracts[d].status = "ACTIVE"
        /\ contracts[d].accepted_by \in Traders

\* of two different buyers accepting a producer-initiated PENDING contract
\* one after the other, the first succeeds and is recorded as its buyer and
\* in accepted_by, the second gets InvalidState and changes nothing
FirstBuyerWins ==
    \A c \in Contracts : \A t1, t2 \in Traders :
        (contracts[c].status = "PENDING"
             /\ contracts[c].created_by = "farmer" /\ t1 # t2)
        => \A first \in {trader_accept_contract(products, contracts, t1, c)} :
           \A second \in {trader_accept_contract(first.products,
                                                  first.contracts, t2, c)} :
               /\ ErrorKind(first.resp) = "OK"
               /\ first.contracts[c].status = "ACTIVE"
               /\ first.contracts[c].trader_id = t1
               /\ first.contracts[c].accepted_by = t1
               /\ ErrorKind(second.resp) = "InvalidState"
               /\ second.products = first.products
               /\ second.contracts = first.contracts

\* no step changes the buyer recorded on a contract that has left PENDING
BuyerKept ==
    \A c \in Contracts :
        contracts[c].status # "PENDING"
        => contracts'[c].trader_id = contracts[c].trader_id

\* C19: for a producer-initiated PENDING contract the first buyer to accept
\* wins: of two different buyers accepting it, in either order (a handler
\* runs to its end before the next one starts), exactly the first succeeds,
\* the contract's buyer and accepted_by are that buyer's id, the other buyer
\* gets InvalidState, and the buyer recorded on the contract never changes
\* afterwards.
C19_FirstBuyerWins == [](FirstBuyerWins) /\ [][BuyerKept]_vars

\* the only contract is a producer's proposal a buyer has accepted and is
\* recorded on, and a later request on it has been refused with InvalidState
C19_Witness ==
    /\ last.kind = "InvalidState"
    /\ Len(contracts) = 1
    /\ contracts[1].created_by = "farmer"
    /\ contracts[1].status = "ACTIVE"
    /\ contracts[1].trader_id \in Traders
    /\ contracts[1].accepted_by = contracts[1].trader_id

\* C20: complete succeeds only when the contract is ACTIVE and the caller
\* is the producer or the buyer recorded on it; any other authenticated
\* caller of an ACTIVE contract gets Forbidden, the contract stays ACTIVE and
\* the listing is unchanged; on success the contract is COMPLETED,
\* committed_qty and total_qty each drop by the contract's qty and
\* available_qty and reserved_qty are unchanged.
C20_CompleteByParty ==
    \A c \in Contracts : \A user \in users_db :
        \A r \in {complete_contract(products, contracts, user, CompleteReq(c))} :
        LET contract == contracts[c]
            p == contract.product_id
        IN IF contract.status = "ACTIVE"
                  /\ user \in {contract.farmer_id, contract.trader_id}
               THEN /\ ErrorKind(r.resp) = "OK"
                    /\ r.contracts[c].status = "COMPLETED"
                    /\ r.products =
                           [products EXCEPT
                                ![p].committed_qty =
                                    FSub(products[p].committed_qty, contract.qty),
                                ![p].total_qty =
                                    FSub(products[p].total_qty, contract.qty)]
               ELSE /\ ErrorKind(r.resp) # "OK"
                    /\ contract.status = "ACTIVE"
                       => ErrorKind(r.resp) = "Forbidden"
                    /\ r.contracts = contracts
                    /\ r.products = products

\* a request has just been refused with Forbidden: the only contract is
\* ACTIVE and its quantity is still committed on a listing of 1000
C20_Witness ==
    /\ last.kind = "Forbidden"
    /\ Len(contracts) = 1
    /\ contracts[1].status = "ACTIVE"
    /\ contracts[1].completed_at = None
    /\ products[contracts[1].product_id].committed_qty = contracts[1].qty
    /\ products[contracts[1].product_id].total_qty = 1000

\* the contract fields that hold the id of a user who acted on the contract
ActorFields == {"accepted_by", "rejected_by", "completed_by"}

\* C21: every contract that has been through a transition carries that
\* transition's timestamp and the id of the user who performed it: an
\* accepted contract accepted_at and its acceptor, a rejected one
\* rejected_at and its rejector, a cancelled one cancelled_at and some
\* recorded user id, a completed one completed_at and its completer.
C21_TransitionsAudited ==
    \A c \in Contracts :
        LET contract == contracts[c] IN
        /\ contract.status \in Accepted
           => contract.accepted_at # None /\ contract.accepted_by \in users_db
        /\ contract.status = "REJECTED"
           => contract.rejected_at # None /\ contract.rejected_by \in users_db
        /\ contract.status = "CANCELLED"
           => /\ contract.cancelled_at # None
              /\ \E f \in ActorFields : contract[f] \in users_db
        /\ contract.status = "COMPLETED"
           => contract.completed_at # None /\ contract.completed_by \in users_db

\* C22: a read-only query leaves the stores as they were: after the
\* per-producer product list, for any caller and any farmer_id parameter,
\* every stored listing and every stored contract is what it was before.
C22_QueriesChangeNothing ==
    \A user \in users_db : \A farmer_id \in QueryFarmers :
        \A r \in {get_farmer_products(products, contracts, user, farmer_id)} :
            /\ r.products = products
            /\ r.contracts = contracts

\* the fields of a contract that are set when it is created
Terms(contract) ==
    [created_by |-> contract.created_by, farmer_id |-> contract.farmer_id,
     product_id |-> contract.product_id, qty |-> contract.qty,
     price_per_unit |-> contract.price_per_unit]

\* C23: a contract's initiator, producer, listing, qty and price_per_unit are
\* fixed at creation: no step (accept, reject, cancel, complete or any other
\* request, successful or refused) changes them on a stored contract.
C23_TermsFixed ==
    [][\A c \in Contracts :
           c \in DOMAIN contracts' /\ Terms(contracts'[c]) = Terms(contracts[c])]_vars

\* a buyer-initiated contract that has been accepted and completed still
\* names the listing's owner, the buyer's quantity and price
C23_Witness ==
    \E c \in Contracts :
        /\ contracts[c].status = "COMPLETED"
        /\ contracts[c].created_by = "trader"
        /\ contracts[c].farmer_id = products[contracts[c].product_id].farmer_id
        /\ contracts[c].qty \in TraderQtys
        /\ contracts[c].price_per_unit \in Prices

\* the stores after the owner of listing p proposes qty q on it, buyer t
\* accepts the proposal and the owner completes it
Delivered(P, C, p, q, t) ==
    LET owner == P[p].farmer_id
        proposed == create_contract_by_farmer(P, C, owner, FarmerReq(p, q))
        cid == Len(proposed.contracts)
        accepted == trader_accept_contract(proposed.products,
                                           proposed.contracts, t, cid)
    IN complete_contract(accepted.products, accepted.contracts, owner,
                         CompleteReq(cid))

\* float sum, in creation order, of qty over the COMPLETED contracts of
\* listing pid among the first n contracts of C
RECURSIVE CompletedQty(_, _, _)
CompletedQty(C, pid, n) ==
    IF n = 0 THEN 0
    ELSE IF C[n].product_id = pid /\ C[n].status = "COMPLETED"
        THEN FAdd(CompletedQty(C, pid, n - 1), C[n].qty)
        ELSE CompletedQty(C, pid, n - 1)

\* C24: total_qty changes only in a successful complete (propose, accept,
\* reject and cancel, successful or refused, leave it as it was), and the
\* total_qty of a listing equals the quantity listed minus the sum of qty of
\* its COMPLETED contracts: on a listing with no contracts yet, after two
\* contracts have been proposed, accepted and completed.
C24_TotalIsListedMinusCompleted ==
    /\ \A user \in users_db : \A x \in ContractIds :
       \A r \in {trader_accept_contract(products, contracts, user, x),
                 farmer_accept_contract(products, contracts, user, x),
                 reject_contract(products, contracts, user, x),
                 cancel_contract(products, contracts, user, x)}
                \cup {create_contract_by_farmer(products, contracts, user, req)
                         : req \in FarmerReqs}
                \cup {create_contract_by_trader(products, contracts, user, req)
                         : req \in TraderReqs} :
           \A p \in Listings : r.products[p].total_qty = products[p].total_qty
    /\ \A p \in Listings : \A q1, q2 \in FarmerQtys : \A t \in Traders :
           Fresh(p)
           => \A one \in {Delivered(products, contracts, p, q1, t)} :
              \A two \in {Delivered(one.products, one.contracts, p, q2, t)} :
                  (ErrorKind(one.resp) = "OK" /\ ErrorKind(two.resp) = "OK")
                  => two.products[p].total_qty =
                         FSub(products[p].total_qty,
                              CompletedQty(two.contracts, p, Len(two.contracts)))

\* C25: in every reachable state every listing has reserved_qty <=
\* available_qty and reserved_qty + committed_qty <= total_qty: the stock
\* held by PENDING producer-initiated proposals plus the stock locked by
\* ACTIVE contracts never exceeds the stock on hand.
C25_NoDoublePromise ==
    \A p \in Listings :
        /\ products[p].reserved_qty <= products[p].available_qty
        /\ FAdd(products[p].reserved_qty, products[p].committed_qty)
               <= products[p].total_qty

\* the stores after the owner of listing p proposes qty q on it and buyer t
\* accepts the proposal
Engaged(P, C, p, q, t) ==
    LET proposed == create_contract_by_farmer(P, C, P[p].farmer_id,
                                              FarmerReq(p, q))
    IN trader_accept_contract(proposed.products, proposed.contracts, t,
                              Len(proposed.contracts))

\* every listing of P has total_qty = available_qty + committed_qty
Balanced(P) ==
    \A p \in DOMAIN P :
        P[p].total_qty = FAdd(P[p].available_qty, P[p].committed_qty)

\* C26: in every reachable state every listing satisfies
\* total_qty = available_qty + committed_qty: now, and after two further
\* contracts on a listing with no contracts yet have been proposed and
\* accepted and the first of them completed.
C26_TotalIsAvailablePlusCommitted ==
    /\ Balanced(products)
    /\ \A p \in Listings : \A q1, q2 \in FarmerQtys : \A t \in Traders :
           Fresh(p)
           => \A one \in {Engaged(products, contracts, p, q1, t)} :
              \A two \in {Engaged(one.products, one.contracts, p, q2, t)} :
              \A done \in {complete_contract(two.products, two.contracts, t,
                                              CompleteReq(Len(one.contracts)))} :
                  (ErrorKind(one.resp) = "OK" /\ ErrorKind(two.resp) = "OK"
                       /\ ErrorKind(done.resp) = "OK")
                  => Balanced(done.products)

\* float sum, in creation order, of qty over the ACTIVE contracts of listing
\* pid among the first n contracts of C
RECURSIVE ActiveQty(_, _, _)
ActiveQty(C, pid, n) ==
    IF n = 0 THEN 0
    ELSE IF C[n].product_id = pid /\ C[n].status = "ACTIVE"
        THEN FAdd(ActiveQty(C, pid, n - 1), C[n].qty)
        ELSE ActiveQty(C, pid, n - 1)

\* every listing of P has committed_qty equal to the sum of qty over its
\* ACTIVE contracts in C
CommittedIsActive(P, C) ==
    \A p \in DOMAIN P : P[p].committed_qty = ActiveQty(C, p, Len(C))

\* C27: in every reachable state a listing's committed_qty equals the sum of
\* qty over the ACTIVE contracts on it: now, and after two further contracts
\* on a listing with no contracts yet have been proposed and accepted and
\* the second of them completed.
C27_CommittedIsActiveSum ==
    /\ CommittedIsActive(products, contracts)
    /\ \A p \in Listings : \A q1, q2 \in FarmerQtys : \A t \in Traders :
           Fresh(p)
           => \A one \in {Engaged(products, contracts, p, q1, t)} :
              \A two \in {Engaged(one.products, one.contracts, p, q2, t)} :
              \A done \in {complete_contract(two.products, two.contracts, t,
                                              CompleteReq(Len(two.contracts)))} :
                  (ErrorKind(one.resp) = "OK" /\ ErrorKind(two.resp) = "OK"
                       /\ ErrorKind(done.resp) = "OK")
                  => CommittedIsActive(done.products, done.contracts)

\* C28: in every reachable state a listing's reserved_qty equals the sum of
\* qty over the PENDING producer-initiated contracts on it, so a listing
\* with no such contract (all of them accepted, rejected or cancelled, or
\* buyer-initiated) has reserved_qty = 0.
C28_ReservedIsPendingSum ==
    \A p \in Listings :
        /\ products[p].reserved_qty = PendingReserved(p, Len(contracts))
        /\ (\A c \in ContractsOn(p) :
                contracts[c].status # "PENDING" \/ contracts[c].created_by # "farmer")
           => products[p].reserved_qty = 0

\* C29: a buyer's proposal is refused, with no contract created and nothing
\* written, when the producer it names does not own the listing (BadRequest)
\* or its qty exceeds the listing's available_qty (InsufficientAvailable);
\* otherwise it is stored as a PENDING buyer-initiated contract, whatever
\* the listing's reserved_qty.
C29_BuyerProposalCheck ==
    \A t \in Traders : \A f \in Farmers : \A p \in Listings : \A q \in TraderQtys :
        \A r \in {create_contract_by_trader(products, contracts, t,
                                            TraderReq(f, p, q))} :
            IF f # products[p].farmer_id
                THEN /\ ErrorKind(r.resp) = "BadRequest"
                     /\ r.contracts = contracts /\ r.products = products
            ELSE IF q > products[p].available_qty
                THEN /\ ErrorKind(r.resp) = "InsufficientAvailable"
                     /\ r.contracts = contracts /\ r.products = products
            ELSE /\ ErrorKind(r.resp) = "OK"
                 /\ Len(r.contracts) = Len(contracts) + 1
                 /\ r.contracts[Len(r.contracts)].status = "PENDING"
                 /\ r.contracts[Len(r.contracts)].created_by = "trader"
                 /\ r.contracts[Len(r.contracts)].trader_id = t

\* a buyer's proposal has just been stored on a listing whose unreserved
\* stock is less than the proposal's qty
C29_Witness ==
    /\ last.kind = "OK"
    /\ Contracts # {}
    /\ LET c == contracts[Len(contracts)]
           product == products[c.product_id]
       IN /\ c.created_by = "trader"
          /\ c.status = "PENDING"
          /\ product.reserved_qty > 0
          /\ c.qty <= product.available_qty
          /\ c.qty > FSub(product.available_qty, product.reserved_qty)

\* C30: in every reachable state every ACTIVE or COMPLETED contract has a
\* buyer, and every producer-initiated contract that is PENDING, REJECTED or
\* CANCELLED has none.
C30_BuyerSetOnAccept ==
    \A c \in Contracts :
        /\ contracts[c].status \in Accepted
           => contracts[c].trader_id \in Traders
        /\ (contracts[c].created_by = "farmer"
                /\ contracts[c].status \in {"PENDING", "REJECTED", "CANCELLED"})
           => contracts[c].trader_id = None

\* an accepted producer-initiated contract with its buyer next to a rejected
\* one without
C30_Witness ==
    \E c, d \in Contracts :
        /\ contracts[c].created_by = "farmer"
        /\ contracts[c].status = "ACTIVE"
        /\ contracts[c].trader_id \in Traders
        /\ contracts[d].created_by = "farmer"
        /\ contracts[d].status = "REJECTED"
        /\ contracts[d].trader_id = None

\* C31: in every reachable state every contract's farmer_id is the farmer_id
\* of the listing its product_id names, and its product_type is that
\* listing's type, whether a producer or a buyer proposed it.
C31_ContractFollowsListing ==
    \A c \in Contracts :
        /\ Has(products, contracts[c].product_id)
        /\ contracts[c].farmer_id = products[contracts[c].product_id].farmer_id
        /\ contracts[c].product_type = products[contracts[c].product_id].type

\* a producer-initiated and a buyer-initiated contract on the same listing,
\* the second one past its accept
C31_Witness ==
    \E c, d \in Contracts :
        /\ contracts[c].created_by = "farmer"
        /\ contracts[d].created_by = "trader"
        /\ contracts[d].status \in Accepted
        /\ contracts[c].product_id = contracts[d].product_id
        /\ contracts[d].farmer_id = products[contracts[d].product_id].farmer_id
        /\ contracts[d].product_type = "Sunflower"

\* C32: in every reachable state every contract's unit is the unit of the
\* listing its product_id names, so that the qty the accepts and the complete
\* take off the listing's counters is a quantity in the listing's unit.
C32_ContractUnitIsListingUnit ==
    \A c \in Contracts :
        contracts[c].unit = products[contracts[c].product_id].unit

====
